---- MODULE Spec2Model ----
(***************************************************************************)
(* Graph_PathFinder: the search algorithms of algorithms.py (bfs, dfs,     *)
(* astar, reconstruct_path) and the reference graphs of graphs.py          *)
(* (UrbanGrid-6x6, Ladder-10, BinaryTree-15, HexRing-12, CampusMap).        *)
(*                                                                         *)
(* One search call is one behaviour: Init is the state at the first test   *)
(* of the search loop, one action is one iteration of the loop (the pop,   *)
(* the bookkeeping and the whole `for neighbor` loop), and for bfs and dfs *)
(* one more action is the code after the loop (reconstruct_path, return).  *)
(*                                                                         *)
(* Nodes are integers.  Python's None is the integer None, which is no     *)
(* node.  A float is an IEEE 754 double, kept exactly as <<s, e, m>> (the  *)
(* number s * m * 2^e with 2^52 <= m < 2^53, m a sequence of digits in     *)
(* base 2^14, least digit first), and the float operations of the code (+, *)
(* -, *, /, sqrt, <) round as the hardware does, to the nearest double,    *)
(* ties to even.  Exponents are not bounded: no number of the model is     *)
(* near the overflow or the subnormal range.  math.cos, math.sin and ** 2  *)
(* are functions of the C library; their values are the ones the library   *)
(* returns (glibc 2.36, x86-64) and are tabulated (libm_cos, libm_sin,     *)
(* libm_pow).  A g-score is a float with an integer value and is kept as   *)
(* that integer.  popped is the tuple the last heappop of astar returned.  *)
(***************************************************************************)
EXTENDS Integers, Sequences, FiniteSets, TLC

VARIABLES alg, adjacency, positions, start, goal,
          frontier, stack, open_heap, came_from, g_score,
          visited_count, visited_order, popped, pc, result

vars == <<alg, adjacency, positions, start, goal,
          frontier, stack, open_heap, came_from, g_score,
          visited_count, visited_order, popped, pc, result>>

\* ---------------------------------------------------------------- bounds
NumNodes == 3
MaxEdges == 3
MaxStretch == 1

\* ------------------------------------------------------------- utilities
None == -1

Max(a, b) == IF a >= b THEN a ELSE b

Reverse(s) == [i \in 1..Len(s) |-> s[Len(s) + 1 - i]]

Range(s) == {s[i] : i \in 1..Len(s)}

\* dict.get(key, []) on the adjacency mapping
Get(adj, n) == IF n \in DOMAIN adj THEN adj[n] ELSE <<>>

\* d[k] = v on a dict
Put(d, k, v) == (k :> v) @@ d

EmptyDict == [x \in {} |-> None]

\* ------------------------------------------------------ reconstruct_path
\* The while loop of reconstruct_path: path.append(current);
\* current = came_from[current].  A missing key raises KeyError.
RECURSIVE WalkBack(_, _, _)
WalkBack(cf, current, path) ==
    IF current = None THEN [err |-> FALSE, path |-> path]
    ELSE IF current \notin DOMAIN cf
         THEN [err |-> TRUE, path |-> Append(path, current)]
         ELSE WalkBack(cf, cf[current], Append(path, current))

\* reconstruct_path without path.reverse(), validating the other end.
reconstruct_path_unreversed(cf, s, g) ==
    LET w == WalkBack(cf, g, <<>>)
    IN  IF w.err THEN [err |-> TRUE, path |-> <<>>]
        ELSE IF w.path = <<>> \/ w.path[Len(w.path)] # s THEN [err |-> FALSE, path |-> <<>>]
        ELSE [err |-> FALSE, path |-> w.path]

reconstruct_path(cf, s, g) ==
    LET w == WalkBack(cf, g, <<>>)
        path == Reverse(w.path)
    IN  IF w.err THEN [err |-> TRUE, path |-> <<>>]
        ELSE IF path = <<>> \/ path[1] # s THEN [err |-> FALSE, path |-> <<>>]
        ELSE [err |-> FALSE, path |-> path]

\* SearchResult with the distance taken as the number of nodes of the path.
SearchResultNodeCount(path, vc, vo) ==
    [path |-> path, distance |-> Len(path),
     visited_count |-> vc, visited_order |-> vo]

SearchResult(path, vc, vo) ==
    [path |-> path, distance |-> Max(0, Len(path) - 1),
     visited_count |-> vc, visited_order |-> vo]

NoResult == [path |-> <<>>, distance |-> 0, visited_count |-> 0, visited_order |-> <<>>]

\* ------------------------------------------------------------- bfs / dfs
\* The `for neighbor in adjacency.get(current, [])` loop of bfs and dfs,
\* from index i on: an undiscovered neighbour gets its came-from entry and
\* is appended to the frontier.
\* The neighbour loop stopping one neighbour early.
RECURSIVE DiscoverSkipLast(_, _, _, _, _)
DiscoverSkipLast(nbrs, i, current, cf, fr) ==
    IF i >= Len(nbrs) THEN [came_from |-> cf, frontier |-> fr]
    ELSE IF nbrs[i] \notin DOMAIN cf
         THEN DiscoverSkipLast(nbrs, i + 1, current, Put(cf, nbrs[i], current),
                               Append(fr, nbrs[i]))
         ELSE DiscoverSkipLast(nbrs, i + 1, current, cf, fr)

\* The neighbour loop testing membership in came_from as it was before the
\* loop, so a neighbour listed twice is enqueued twice.
DiscoverSnapshot(nbrs, i, current, cf, fr) ==
    LET new == SelectSeq(SubSeq(nbrs, i, Len(nbrs)), LAMBDA n : n \notin DOMAIN cf)
    IN  [came_from |-> [n \in DOMAIN cf \cup Range(new) |->
                          IF n \in DOMAIN cf THEN cf[n] ELSE current],
         frontier |-> fr \o new]

\* The neighbour loop putting a new neighbour at the left end (appendleft).
RECURSIVE DiscoverAppendLeft(_, _, _, _, _)
DiscoverAppendLeft(nbrs, i, current, cf, fr) ==
    IF i > Len(nbrs) THEN [came_from |-> cf, frontier |-> fr]
    ELSE IF nbrs[i] \notin DOMAIN cf
         THEN DiscoverAppendLeft(nbrs, i + 1, current, Put(cf, nbrs[i], current),
                                 <<nbrs[i]>> \o fr)
         ELSE DiscoverAppendLeft(nbrs, i + 1, current, cf, fr)

\* The neighbour loop going through the neighbours from the last to the
\* first (`for neighbor in reversed(...)`).
RECURSIVE DiscoverReversed(_, _, _, _, _)
DiscoverReversed(nbrs, i, current, cf, fr) ==
    IF i > Len(nbrs) THEN [came_from |-> cf, frontier |-> fr]
    ELSE LET n == nbrs[Len(nbrs) + 1 - i]
         IN  IF n \notin DOMAIN cf
             THEN DiscoverReversed(nbrs, i + 1, current, Put(cf, n, current),
                                   Append(fr, n))
             ELSE DiscoverReversed(nbrs, i + 1, current, cf, fr)

RECURSIVE Discover(_, _, _, _, _)
Discover(nbrs, i, current, cf, fr) ==
    IF i > Len(nbrs) THEN [came_from |-> cf, frontier |-> fr]
    ELSE IF nbrs[i] \notin DOMAIN cf
         THEN Discover(nbrs, i + 1, current, Put(cf, nbrs[i], current), Append(fr, nbrs[i]))
         ELSE Discover(nbrs, i + 1, current, cf, fr)

\* The loop body of bfs popping from the right end of the deque.
BfsBodyPopRight(adj, g, st) ==
    LET n == Len(st.frontier)
        current == st.frontier[n]
        rest == SubSeq(st.frontier, 1, n - 1)
        vc == st.visited_count + 1
        vo == Append(st.visited_order, current)
    IN  IF current = g
        THEN [frontier |-> rest, came_from |-> st.came_from,
              visited_count |-> vc, visited_order |-> vo, brk |-> TRUE]
        ELSE LET d == Discover(Get(adj, current), 1, current, st.came_from, rest)
             IN  [frontier |-> d.frontier, came_from |-> d.came_from,
                  visited_count |-> vc, visited_order |-> vo, brk |-> FALSE]

\* The loop body of bfs counting the visit only after the goal test.
BfsBodyCountAfterBreak(adj, g, st) ==
    LET current == Head(st.frontier)
        rest == Tail(st.frontier)
        vo == Append(st.visited_order, current)
    IN  IF current = g
        THEN [frontier |-> rest, came_from |-> st.came_from,
              visited_count |-> st.visited_count, visited_order |-> vo, brk |-> TRUE]
        ELSE LET d == Discover(Get(adj, current), 1, current, st.came_from, rest)
             IN  [frontier |-> d.frontier, came_from |-> d.came_from,
                  visited_count |-> st.visited_count + 1, visited_order |-> vo,
                  brk |-> FALSE]

\* The loop body of bfs testing for the goal after the neighbour loop.
BfsBodyLateBreak(adj, g, st) ==
    LET current == Head(st.frontier)
        d == Discover(Get(adj, current), 1, current, st.came_from, Tail(st.frontier))
    IN  [frontier |-> d.frontier, came_from |-> d.came_from,
         visited_count |-> st.visited_count + 1,
         visited_order |-> Append(st.visited_order, current), brk |-> current = g]

\* One iteration of the while loop of bfs on the search state st
\* (frontier, came_from, visited_count, visited_order, brk).
BfsBody(adj, g, st) ==
    LET current == Head(st.frontier)
        rest == Tail(st.frontier)
        vc == st.visited_count + 1
        vo == Append(st.visited_order, current)
    IN  IF current = g
        THEN [frontier |-> rest, came_from |-> st.came_from,
              visited_count |-> vc, visited_order |-> vo, brk |-> TRUE]
        ELSE LET d == Discover(Get(adj, current), 1, current, st.came_from, rest)
             IN  [frontier |-> d.frontier, came_from |-> d.came_from,
                  visited_count |-> vc, visited_order |-> vo, brk |-> FALSE]

\* One iteration of the while loop of dfs: the same, popping from the end.
DfsBody(adj, g, st) ==
    LET n == Len(st.frontier)
        current == st.frontier[n]
        rest == SubSeq(st.frontier, 1, n - 1)
        vc == st.visited_count + 1
        vo == Append(st.visited_order, current)
    IN  IF current = g
        THEN [frontier |-> rest, came_from |-> st.came_from,
              visited_count |-> vc, visited_order |-> vo, brk |-> TRUE]
        ELSE LET d == Discover(Get(adj, current), 1, current, st.came_from, rest)
             IN  [frontier |-> d.frontier, came_from |-> d.came_from,
                  visited_count |-> vc, visited_order |-> vo, brk |-> FALSE]

\* The state of bfs and dfs before the loop.
SearchInit(s) ==
    [frontier |-> <<s>>, came_from |-> Put(EmptyDict, s, None),
     visited_count |-> 0, visited_order |-> <<>>, brk |-> FALSE]

\* The while loop of bfs run to its end.
RECURSIVE BfsLoop(_, _, _)
BfsLoop(adj, g, st) ==
    IF st.brk \/ st.frontier = <<>> THEN st ELSE BfsLoop(adj, g, BfsBody(adj, g, st))

\* bfs(adjacency, start, goal) as a function: err is TRUE when it raises.
bfs(adj, s, g) ==
    LET st == BfsLoop(adj, g, SearchInit(s))
        r == reconstruct_path(st.came_from, s, g)
    IN  [err |-> r.err, result |-> SearchResult(r.path, st.visited_count, st.visited_order)]

\* ------------------------------------------------------- natural numbers
\* A natural number of any size is the sequence of its digits in base Base,
\* least digit first, with no leading zero digit: <<>> is 0.
Base == 2 ^ 14

Digit(a, i) == IF 1 <= i /\ i <= Len(a) THEN a[i] ELSE 0

\* a without its leading zero digits
Trim(a) ==
    IF \A i \in 1..Len(a) : a[i] = 0 THEN <<>>
    ELSE SubSeq(a, 1, CHOOSE i \in 1..Len(a) :
                          a[i] # 0 /\ \A j \in (i + 1)..Len(a) : a[j] = 0)

\* The carry into column i of the number whose j-th column holds cols[j]
\* (any integer).
RECURSIVE CarryIn(_, _)
CarryIn(cols, i) ==
    IF i = 1 THEN 0 ELSE (Digit(cols, i - 1) + CarryIn(cols, i - 1)) \div Base

\* The digits of that number, which has at most n of them.
Carry(cols, n) == Trim([i \in 1..n |-> (Digit(cols, i) + CarryIn(cols, i)) % Base])

\* the natural number n < 2^31
NatOf(n) == Trim(<<n % Base, (n \div Base) % Base, n \div (Base * Base)>>)

\* a + b
NatAdd(a, b) ==
    Carry([i \in 1..Max(Len(a), Len(b)) |-> Digit(a, i) + Digit(b, i)],
          Max(Len(a), Len(b)) + 1)

\* a - b for a >= b
NatSub(a, b) == Carry([i \in 1..Len(a) |-> Digit(a, i) - Digit(b, i)], Len(a))

\* a * b for a and b of at most four digits
NatMul(a, b) ==
    Carry([k \in 1..8 |->
              Digit(a, 1) * Digit(b, k) + Digit(a, 2) * Digit(b, k - 1)
              + Digit(a, 3) * Digit(b, k - 2) + Digit(a, 4) * Digit(b, k - 3)],
          8)

\* a < b
NatLess(a, b) ==
    \/ Len(a) < Len(b)
    \/ /\ Len(a) = Len(b)
       /\ \E i \in 1..Len(a) : /\ a[i] < b[i]
                               /\ \A j \in (i + 1)..Len(a) : a[j] = b[j]

\* a * 2^(14 * q + r) for r < 14
ShiftDigits(a, q, r) ==
    Trim([i \in 1..(Len(a) + q + 1) |->
             (Digit(a, i - q) % (2 ^ (14 - r))) * (2 ^ r)
             + Digit(a, i - q - 1) \div (2 ^ (14 - r))])

\* a * 2^n
ShiftLeft(a, n) == ShiftDigits(a, n \div 14, n % 14)

\* a \div 2^(14 * q + r) for r < 14
DropDigits(a, q, r) ==
    Trim([i \in 1..Max(Len(a) - q, 0) |->
             Digit(a, i + q) \div (2 ^ r)
             + (Digit(a, i + q + 1) % (2 ^ r)) * (2 ^ (14 - r))])

\* a \div 2^n
ShiftRight(a, n) == DropDigits(a, n \div 14, n % 14)

\* bit k of a (bit 0 is the least; a bit below bit 0 is 0)
Bit(a, k) == (Digit(a, k \div 14 + 1) \div (2 ^ (k % 14))) % 2

\* the n least bits of a are all 0
LowZero(a, n) ==
    /\ \A i \in 1..(n \div 14) : Digit(a, i) = 0
    /\ Digit(a, n \div 14 + 1) % (2 ^ (n % 14)) = 0

\* the number of bits of a
BitLen(a) ==
    IF a = <<>> THEN 0
    ELSE (Len(a) - 1) * 14
         + (CHOOSE k \in 1..14 : 2 ^ (k - 1) <= a[Len(a)] /\ a[Len(a)] < 2 ^ k)

\* the remainder by d < Base of the number made of the digits of a above
\* digit i
RECURSIVE Rem(_, _, _)
Rem(a, d, i) == IF i >= Len(a) THEN 0 ELSE (Rem(a, d, i + 1) * Base + a[i + 1]) % d

\* a \div d for d < Base
Quotient(a, d) == Trim([i \in 1..Len(a) |-> (Rem(a, d, i) * Base + a[i]) \div d])

\* 4 * x + c and 2 * x + c for x = <<high, low>>, the number high * 2^28 + low
Quadruple(x, c) == <<4 * x[1] + (4 * x[2] + c) \div 2 ^ 28, (4 * x[2] + c) % 2 ^ 28>>

Double(x, c) == <<2 * x[1] + (2 * x[2] + c) \div 2 ^ 28, (2 * x[2] + c) % 2 ^ 28>>

\* x - y for x >= y
Minus(x, y) ==
    IF x[2] >= y[2] THEN <<x[1] - y[1], x[2] - y[2]>>
    ELSE <<x[1] - y[1] - 1, x[2] + 2 ^ 28 - y[2]>>

\* the pair p (the bits 2p + 1 and 2p) of the number m * 2^t, as a number
Pair(m, t, p) == 2 * Bit(m, 2 * p + 1 - t) + Bit(m, 2 * p - t)

\* The square root by pairs of bits, as in the long-hand method, of the
\* number m * 2^t: the steps for the pairs p, p - 1, .., 0 from the root q
\* and the remainder r.  A step brings down the pair (SqrtPairs) and takes
\* the trial 4q + 1 from the remainder when it fits (SqrtTake).
RECURSIVE SqrtPairs(_, _, _, _, _)
RECURSIVE SqrtTake(_, _, _, _, _, _)
SqrtPairs(m, t, p, q, r) ==
    IF p < 0 THEN [root |-> q, rem |-> r]
    ELSE SqrtTake(m, t, p, q, Quadruple(r, Pair(m, t, p)), Quadruple(q, 1))

SqrtTake(m, t, p, q, rem, trial) ==
    IF rem[1] < trial[1] \/ (rem[1] = trial[1] /\ rem[2] < trial[2])
    THEN SqrtPairs(m, t, p - 1, Double(q, 0), rem)
    ELSE SqrtPairs(m, t, p - 1, Double(q, 1), Minus(rem, trial))

\* ---------------------------------------------------------------- floats
\* A float (an IEEE 754 double) is <<s, e, m>>: the number s * m * 2^e with
\* s = 1 or -1 and 2^52 <= m < 2^53, or a zero <<s, 0, <<>> >>.
FZero == <<1, 0, <<>> >>

IsZero(x) == x[3] = <<>>

\* s * q * 2^e for q of 53 or, after a carry out of the rounding, 54 bits
Renormalise(s, q, e) ==
    IF BitLen(q) = 54 THEN <<s, e + 1, ShiftRight(q, 1)>> ELSE <<s, e, q>>

\* The double nearest to s * m * 2^e (ties to even) for a natural m of
\* 53 + k bits.
RoundBits(s, m, e, k) ==
    IF k <= 0 THEN <<s, e + k, ShiftLeft(m, -k)>>
    ELSE Renormalise(s,
                     NatAdd(ShiftRight(m, k),
                            IF Bit(m, k - 1) = 1 /\ (Bit(m, k) = 1 \/ ~LowZero(m, k - 1))
                            THEN <<1>> ELSE <<>>),
                     e + k)

\* The double nearest to s * m * 2^e for a natural m # 0.
Round(s, m, e) == RoundBits(s, m, e, BitLen(m) - 53)

\* float(n) for an integer n
Float(n) ==
    IF n = 0 THEN FZero
    ELSE Round(IF n < 0 THEN -1 ELSE 1, NatOf(IF n < 0 THEN -n ELSE n), 0)

\* -x
FNeg(x) == <<-x[1], x[2], x[3]>>

\* The exponent at which x + y is added: the lesser of the two, but no more
\* than 60 binary places below the greater.
AddExponent(x, y) == Max(IF x[2] < y[2] THEN x[2] ELSE y[2], Max(x[2], y[2]) - 60)

\* The magnitude of x in units of 2^e; an x below that exponent only tells
\* the rounding that the sum is not the other operand.
Aligned(x, e) == IF x[2] < e THEN <<1>> ELSE ShiftLeft(x[3], x[2] - e)

\* sx * a * 2^e + sy * b * 2^e
AddAligned(sx, a, sy, b, e) ==
    IF sx # sy /\ a = b THEN FZero
    ELSE Round(IF sx = sy \/ NatLess(b, a) THEN sx ELSE sy,
               IF sx = sy THEN NatAdd(a, b)
               ELSE IF NatLess(a, b) THEN NatSub(b, a) ELSE NatSub(a, b),
               e)

\* x + y
FAdd(x, y) ==
    IF IsZero(x) /\ IsZero(y) THEN (IF x[1] = y[1] THEN x ELSE FZero)
    ELSE IF IsZero(x) THEN y
    ELSE IF IsZero(y) THEN x
    ELSE AddAligned(x[1], Aligned(x, AddExponent(x, y)),
                    y[1], Aligned(y, AddExponent(x, y)), AddExponent(x, y))

\* x - y
FSub(x, y) == FAdd(x, FNeg(y))

\* x * y
FMul(x, y) ==
    IF IsZero(x) \/ IsZero(y) THEN <<x[1] * y[1], 0, <<>> >>
    ELSE Round(x[1] * y[1], NatMul(x[3], y[3]), x[2] + y[2])

\* s * n * 2^e / b for a natural n of more than 60 bits and 0 < b < Base
Ratio(s, n, b, e) ==
    Round(s, NatAdd(ShiftLeft(Quotient(n, b), 1), IF Rem(n, b, 0) = 0 THEN <<>> ELSE <<1>>),
          e - 1)

\* a / b for integers a and 0 < b < Base
TrueDiv(a, b) ==
    IF a = 0 THEN FZero
    ELSE Ratio(IF a < 0 THEN -1 ELSE 1, ShiftLeft(NatOf(IF a < 0 THEN -a ELSE a), 70), b, -70)

\* The double nearest to the square root of which s holds the integer part
\* and the remainder, in units of 2^e.
RoundRoot(s, e) ==
    Round(1,
          NatAdd(ShiftLeft(NatAdd(ShiftLeft(NatOf(s.root[1]), 28), NatOf(s.root[2])), 1),
                 IF s.rem = <<0, 0>> THEN <<>> ELSE <<1>>),
          e - 1)

\* sqrt(m * 2^e) with m * 2^e taken as (m * 2^t) * 2^(e - t) for e - t even
SqrtScaled(m, e, t) == RoundRoot(SqrtPairs(m, t, 54, <<0, 0>>, <<0, 0>>), (e - t) \div 2)

\* sqrt(x) for x >= 0
FSqrt(x) == IF IsZero(x) THEN x ELSE SqrtScaled(x[3], x[2], 56 - (x[2] % 2))

\* |a| < |b|
Below(a, b) ==
    /\ ~IsZero(b)
    /\ \/ IsZero(a)
       \/ a[2] < b[2]
       \/ a[2] = b[2] /\ NatLess(a[3], b[3])

\* x < y
FLess(x, y) ==
    IF IsZero(x) /\ IsZero(y) THEN FALSE
    ELSE IF x[1] = 1 /\ y[1] = 1 THEN Below(x, y)
    ELSE IF x[1] = -1 /\ y[1] = -1 THEN Below(y, x)
    ELSE x[1] = -1

\* ------------------------------------------------------------- euclidean
\* math.cos(angle) and math.sin(angle) as the C library returns them for
\* the angles of hex_ring_12: entry k + 1 is for angle = 2 * math.pi * k / 12
\* (the outer node i has k = 2i, the inner node i has k = 2i + 1).
libm_cos ==
    << <<1, -52, <<0, 0, 0, 1024>> >>,                \*  1.0
       <<1, -53, <<3243, 8545, 10158, 1773>> >>,      \*  0.8660254037844387
       <<1, -53, <<1, 0, 0, 1024>> >>,                \*  0.5000000000000001
       <<1, -106, <<7175, 3153, 8803, 1129>> >>,      \*  6.123233995736766e-17
       <<-1, -54, <<16380, 16383, 16383, 2047>> >>,   \* -0.4999999999999998
       <<-1, -53, <<3243, 8545, 10158, 1773>> >>,     \* -0.8660254037844387
       <<-1, -52, <<0, 0, 0, 1024>> >>,               \* -1.0
       <<-1, -53, <<3244, 8545, 10158, 1773>> >>,     \* -0.8660254037844388
       <<-1, -53, <<4, 0, 0, 1024>> >>,               \* -0.5000000000000004
       <<-1, -105, <<2570, 12922, 5012, 1694>> >>,    \* -1.8369701987210297e-16
       <<1, -53, <<1, 0, 0, 1024>> >>,                \*  0.5000000000000001
       <<1, -53, <<3240, 8545, 10158, 1773>> >> >>    \*  0.8660254037844384

libm_sin ==
    << <<1, 0, <<>> >>,                               \*  0.0
       <<1, -54, <<16383, 16383, 16383, 2047>> >>,    \*  0.49999999999999994
       <<1, -53, <<3242, 8545, 10158, 1773>> >>,      \*  0.8660254037844386
       <<1, -52, <<0, 0, 0, 1024>> >>,                \*  1.0
       <<1, -53, <<3243, 8545, 10158, 1773>> >>,      \*  0.8660254037844387
       <<1, -54, <<16383, 16383, 16383, 2047>> >>,    \*  0.49999999999999994
       <<1, -105, <<7175, 3153, 8803, 1129>> >>,      \*  1.2246467991473532e-16
       <<-1, -54, <<16379, 16383, 16383, 2047>> >>,   \* -0.4999999999999997
       <<-1, -53, <<3240, 8545, 10158, 1773>> >>,     \* -0.8660254037844384
       <<-1, -52, <<0, 0, 0, 1024>> >>,               \* -1.0
       <<-1, -53, <<3242, 8545, 10158, 1773>> >>,     \* -0.8660254037844386
       <<-1, -53, <<4, 0, 0, 1024>> >> >>             \* -0.5000000000000004

\* x ** 2 is the C library's pow(x, 2.0), which is within one unit in the
\* last place of x * x but is not always the double nearest to it.  libm_pow
\* holds, by |x|, the results that are not the nearest double, among the
\* coordinate differences of the five graphs: 3.0000000000000013 ** 2 is
\* 9.000000000000007 where the nearest double is 9.000000000000009.
libm_pow ==
    (<<1, -51, <<3, 0, 0, 1536>> >> :> <<1, -49, <<4, 0, 0, 1152>> >>)

\* x ** 2
Square(x) ==
    IF <<1, x[2], x[3]>> \in DOMAIN libm_pow THEN libm_pow[<<1, x[2], x[3]>>]
    ELSE FMul(x, x)

\* (a[0] - b[0]) ** 2 + (a[1] - b[1]) ** 2
SquareSum(a, b) == FAdd(Square(FSub(a[1], b[1])), Square(FSub(a[2], b[2])))

\* euclidean(a, b)
euclidean(a, b) == FSqrt(SquareSum(a, b))

\* ---------------------------------------------------------------- graphs
add_undirected_edge(adj, a, b) ==
    LET adj1 == Put(adj, a, Append(Get(adj, a), b))
    IN  Put(adj1, b, Append(Get(adj1, b), a))

\* The adjacency mapping after _add_undirected_edge(adj, a, b) for each edge
\* (a, b) of edges in order, from the empty dict: an edge appends b to a's
\* list and then a to b's, so n's list holds the other ends of its edges,
\* in the order of the appends.
Connect(edges) ==
    LET appends == [j \in 1..(2 * Len(edges)) |->
                       LET e == edges[(j + 1) \div 2]
                       IN  IF j % 2 = 1 THEN e ELSE <<e[2], e[1]>>]
    IN  [n \in {appends[j][1] : j \in 1..Len(appends)} |->
            LET out == SelectSeq(appends, LAMBDA x : x[1] = n)
            IN  [i \in 1..Len(out) |-> out[i][2]]]

\* list.remove(x): drops the first occurrence of x.
RECURSIVE ListRemove(_, _)
ListRemove(s, x) ==
    IF s = <<>> THEN <<>>
    ELSE IF Head(s) = x THEN Tail(s)
    ELSE <<Head(s)>> \o ListRemove(Tail(s), x)

size == 6

\* The node (r, c) of the grid; the order of the integers is Python's order
\* of the tuples.
GridNode(r, c) == r * size + c

\* The edges the two nested loops of "regular grid connections" add, in
\* order: for each cell (r, c) the edge down, then the edge to the right.
grid_edges ==
    LET slot(j) == LET k == (j - 1) \div 2
                       r == k \div size
                       c == k % size
                   IN  IF j % 2 = 1
                       THEN [ok |-> r + 1 < size,
                             edge |-> <<GridNode(r, c), GridNode(r + 1, c)>>]
                       ELSE [ok |-> c + 1 < size,
                             edge |-> <<GridNode(r, c), GridNode(r, c + 1)>>]
        kept == SelectSeq([j \in 1..(2 * size * size) |-> slot(j)], LAMBDA x : x.ok)
    IN  [i \in 1..Len(kept) |-> kept[i].edge]

blocked == << <<GridNode(1, 1), GridNode(1, 2)>>, <<GridNode(2, 3), GridNode(3, 3)>> >>

\* The "block a few streets" loop, from index i on.
RECURSIVE Unblock(_, _)
Unblock(adj, i) ==
    IF i > Len(blocked) THEN adj
    ELSE LET a == blocked[i][1]
             b == blocked[i][2]
             adj1 == IF a \in DOMAIN adj /\ b \in Range(adj[a])
                     THEN Put(adj, a, ListRemove(adj[a], b)) ELSE adj
             adj2 == IF b \in DOMAIN adj1 /\ a \in Range(adj1[b])
                     THEN Put(adj1, b, ListRemove(adj1[b], a)) ELSE adj1
         IN  Unblock(adj2, i + 1)

urban_grid_adjacency ==
    add_undirected_edge(Unblock(Connect(grid_edges), 1), GridNode(0, 0), GridNode(2, 2))

\* positions[(r, c)] = (float(c), float(r))
urban_grid_positions ==
    [n \in 0..(size * size - 1) |-> <<Float(n % size), Float(n \div size)>>]

rails == 5

\* The nodes "L0".."L4", "R0".."R4" of the ladder, in Python's string order.
LNode(i) == i
RNode(i) == rails + i

\* The edges the loop of ladder_10 adds, in order: for each i the two rail
\* edges (when i > 0), then the rung.
ladder_edges ==
    LET slot(j) == LET i == (j - 1) \div 3
                       kind == (j - 1) % 3
                   IN  IF kind = 0
                       THEN [ok |-> i > 0, edge |-> <<LNode(i - 1), LNode(i)>>]
                       ELSE IF kind = 1
                       THEN [ok |-> i > 0, edge |-> <<RNode(i - 1), RNode(i)>>]
                       ELSE [ok |-> TRUE, edge |-> <<LNode(i), RNode(i)>>]
        kept == SelectSeq([j \in 1..(3 * rails) |-> slot(j)], LAMBDA x : x.ok)
    IN  [i \in 1..Len(kept) |-> kept[i].edge]

ladder_adjacency == Connect(ladder_edges)

\* positions[L] = (0.0, float(i)); positions[R] = (2.0, float(i))
ladder_positions ==
    [n \in 0..(2 * rails - 1) |-> <<Float(IF n < rails THEN 0 ELSE 2), Float(n % rails)>>]

\* The edges the loop of binary_tree_15 adds, in order: for each node i of
\* 1..15 the edge to 2i, then the edge to 2i + 1, when they are nodes.
tree_edges ==
    LET slot(j) == LET i == (j + 1) \div 2
                       child == 2 * i + ((j + 1) % 2)
                   IN  [ok |-> child <= 15, edge |-> <<i, child>>]
        kept == SelectSeq([j \in 1..30 |-> slot(j)], LAMBDA x : x.ok)
    IN  [i \in 1..Len(kept) |-> kept[i].edge]

binary_tree_adjacency == Connect(tree_edges)

\* positions[i] = (x, -y) with x = (index_in_level + 1) / (nodes_in_level +
\* 1) * 10.0 and y = level * 2.0.
binary_tree_positions ==
    [i \in 1..15 |->
        LET level == CHOOSE l \in 0..3 : 2 ^ l <= i /\ i < 2 ^ (l + 1)
            index_in_level == i - 2 ^ level
            nodes_in_level == 2 ^ level
        IN  <<FMul(TrueDiv(index_in_level + 1, nodes_in_level + 1), Float(10)),
              FNeg(FMul(Float(level), Float(2)))>>]

\* The nodes "I0".."I5", "O0".."O5" of the hex ring, in Python's string
\* order.
INode(i) == i
ONode(i) == 6 + i

\* The edges hex_ring_12 adds, in order: the ring connections (for each i
\* the outer edge, then the inner edge), the spokes, and the two chords
\* (i = 0 and i = 4).
hex_edges ==
    [j \in 1..12 |->
        LET i == (j - 1) \div 2
        IN  IF j % 2 = 1 THEN <<ONode(i), ONode((i + 1) % 6)>>
            ELSE <<INode(i), INode((i + 1) % 6)>>]
    \o [i \in 1..6 |-> <<ONode(i - 1), INode(i - 1)>>]
    \o [j \in 1..2 |-> LET i == 4 * (j - 1) IN <<ONode(i), INode((i + 3) % 6)>>]

hex_ring_adjacency == Connect(hex_edges)

\* The float of a literal with the value k / 2.
Halves(k) == TrueDiv(k, 2)

\* The entry of libm_cos and libm_sin for the angle of node n: angle =
\* 2 * math.pi * i / 6 for the outer node i, 2 * math.pi * (i + 0.5) / 6 for
\* the inner node i.
HexAngle(n) == IF n < 6 THEN 2 * n + 2 ELSE 2 * (n - 6) + 1

\* The radius of node n: 3.5 for an inner node, 6.0 for an outer one.
HexRadius(n) == Halves(IF n < 6 THEN 7 ELSE 12)

\* positions[node] = (math.cos(angle) * radius, math.sin(angle) * radius)
hex_ring_positions ==
    [n \in 0..11 |-> <<FMul(libm_cos[HexAngle(n)], HexRadius(n)),
                       FMul(libm_sin[HexAngle(n)], HexRadius(n))>>]

\* The places of the campus map, in Python's string order.
Admin == 0
Auditorium == 1
Cafeteria == 2
Gate == 3
Hostel == 4
LabA == 5
LabB == 6
Library == 7
Parking == 8
Sports == 9

campus_edges ==
    << <<Gate, Admin>>, <<Gate, Parking>>, <<Admin, Library>>, <<Admin, Cafeteria>>,
       <<Library, Auditorium>>, <<Library, LabA>>, <<Cafeteria, LabB>>, <<LabA, LabB>>,
       <<LabB, Sports>>, <<Auditorium, Hostel>>, <<LabA, Hostel>> >>

campus_adjacency == Connect(campus_edges)

\* The positions of campus_map, whose literals are all multiples of 0.5,
\* in halves: "Gate": (-5.0, -1.0) is <<-10, -2>>.
campus_halves ==
    (Gate :> <<-10, -2>>) @@ (Parking :> <<-12, -6>>) @@
    (Admin :> <<-4, 0>>) @@ (Library :> <<0, 5>>) @@
    (Cafeteria :> <<2, -3>>) @@ (LabA :> <<6, 3>>) @@
    (LabB :> <<9, -1>>) @@ (Sports :> <<12, -5>>) @@
    (Auditorium :> <<4, 7>>) @@ (Hostel :> <<11, 5>>)

campus_positions ==
    [n \in DOMAIN campus_halves |-> <<Halves(campus_halves[n][1]), Halves(campus_halves[n][2])>>]

\* The five graphs of get_all_graphs, each with the positions mappings
\* astar is run with on it: the stored one, and for the grid the empty one
\* too.
get_all_graphs ==
    {[adjacency |-> urban_grid_adjacency, small |-> FALSE,
      posmaps |-> {urban_grid_positions, EmptyDict}],
     [adjacency |-> ladder_adjacency, small |-> FALSE,
      posmaps |-> {ladder_positions}],
     [adjacency |-> binary_tree_adjacency, small |-> FALSE,
      posmaps |-> {binary_tree_positions}],
     [adjacency |-> hex_ring_adjacency, small |-> FALSE,
      posmaps |-> {hex_ring_positions, EmptyDict}],
     [adjacency |-> campus_adjacency, small |-> FALSE,
      posmaps |-> {campus_positions}]}

\* ---------------------------------------------------------------- inputs
Nodes == 1..NumNodes

\* The adjacency mapping whose lists hold the edges of es, in order.
AdjOf(es) ==
    [n \in Nodes |->
        LET out == SelectSeq(es, LAMBDA e : e[1] = n)
        IN  [i \in 1..Len(out) |-> out[i][2]]]

\* Every adjacency mapping over Nodes with at most MaxEdges list entries in
\* all: directed or not, with self-loops and repeated neighbours.
SmallGraphs ==
    UNION {{AdjOf(es) : es \in {x \in [1..k -> Nodes \X Nodes] :
                                   \A i \in 1..(k - 1) : x[i][1] <= x[i + 1][1]}} :
           k \in 0..MaxEdges}

\* positions with node n at the point (c * n, 0).
Line(c) == [n \in Nodes |-> <<Float(c * n), Float(0)>>]

\* A mapping without the key d.
Without(f, d) == [n \in DOMAIN f \ {d} |-> f[n]]

\* The positions mappings astar is given on a small graph for the goal g: the
\* empty one, and the lines of stretch 1..MaxStretch, whole, without the goal
\* and without the first other node.
SmallPositions(g) ==
    {EmptyDict} \cup
    UNION {{Line(c), Without(Line(c), g),
            Without(Line(c), CHOOSE n \in Nodes : n # g /\ \A m \in Nodes \ {g} : n <= m)} :
           c \in 1..MaxStretch}

\* The path graph A - B - C as the nodes 1..3.
PathABC == (1 :> <<2>>) @@ (2 :> <<1, 3>>) @@ (3 :> <<2>>)

\* Two disjoint triangles {A, B, C} and {D, E, F} as the nodes 1..6.
Triangles ==
    (1 :> <<2, 3>>) @@ (2 :> <<1, 3>>) @@ (3 :> <<1, 2>>) @@
    (4 :> <<5, 6>>) @@ (5 :> <<4, 6>>) @@ (6 :> <<4, 5>>)

\* A graph with a self-loop (1), a repeated neighbour (3), a cycle
\* (4 -> 6 -> 2 -> 4) and two routes from 4 to 2, of 3 edges by 5 and 3 and
\* of 2 edges by 6; with detour_positions astar follows the longer one first.
Detour ==
    (1 :> <<1>>) @@ (2 :> <<2, 4>>) @@ (3 :> <<2, 2>>) @@
    (4 :> <<5, 6>>) @@ (5 :> <<3>>) @@ (6 :> <<2>>)

detour_positions ==
    [n \in 1..6 |-> <<Float(<<0, 2, 0, 2, 1, 3>>[n]), Float(0)>>]

\* The graphs a search is run on, each with the positions mappings astar is
\* given for it: the graphs of get_all_graphs, every small adjacency mapping
\* (small is TRUE for the graphs over Nodes, which get SmallPositions of the
\* goal), and the three scenarios.
Catalog ==
    get_all_graphs
    \cup {[adjacency |-> G, small |-> TRUE, posmaps |-> {}] : G \in SmallGraphs}
    \cup {[adjacency |-> PathABC, small |-> FALSE, posmaps |-> {EmptyDict}],
          [adjacency |-> Triangles, small |-> FALSE, posmaps |-> {EmptyDict}],
          [adjacency |-> Detour, small |-> FALSE, posmaps |-> {detour_positions}]}

\* ----------------------------------------------------------------- astar
\* The positions mappings of the inputs, and the pairs of points of one
\* mapping.
AllPositions ==
    UNION {G.posmaps : G \in get_all_graphs}
    \cup {detour_positions} \cup {Line(c) : c \in 1..MaxStretch}

PointPairs == UNION {{<<p[n], p[m]>> : n, m \in DOMAIN p} : p \in AllPositions}

\* The value of key in table, or value for a key the table does not hold.
Lookup(table, key, value) == IF key \in DOMAIN table THEN table[key] ELSE value

\* euclidean on the pairs of points of the inputs, evaluated once: the
\* square roots of the sums of squares, and the distance of each pair.
\* (f @@ EmptyDict is the function f as a table of its values.)
Roots == [x \in {SquareSum(p[1], p[2]) : p \in PointPairs} |-> FSqrt(x)] @@ EmptyDict

EuclideanValues == [p \in PointPairs |-> Roots[SquareSum(p[1], p[2])]] @@ EmptyDict

\* h of astar for a neighbour n and the goal g
Heuristic(pos, n, g) ==
    IF n \in DOMAIN pos /\ g \in DOMAIN pos
    THEN Lookup(EuclideanValues, <<pos[n], pos[g]>>, euclidean(pos[n], pos[g]))
    ELSE FZero

\* f = tentative_g + h on the g-scores and the values of h of the inputs,
\* evaluated once: a g-score is less than the number of nodes.
PriorityValues ==
    [x \in (0..(size * size)) \X ({EuclideanValues[p] : p \in DOMAIN EuclideanValues} \cup {FZero}) |->
        FAdd(Float(x[1]), x[2])] @@ EmptyDict

\* f = tentative_g + h for the neighbour n
Priority(pos, g, n, tentative_g) ==
    Lookup(PriorityValues, <<tentative_g, Heuristic(pos, n, g)>>,
           FAdd(Float(tentative_g), Heuristic(pos, n, g)))

\* Python's tuple order on heap entries (f, node).
EntryLess(e1, e2) ==
    \/ FLess(e1[1], e2[1])
    \/ /\ ~FLess(e2[1], e1[1])
       /\ e1[2] < e2[2]

\* A pop of the greatest entry of the heap.
HeapMax(heap) == CHOOSE e \in heap : \A o \in heap \ {e} : EntryLess(o, e)

\* heappop: the least entry of the heap.  The heap is kept as the set of
\* its entries: a node is pushed again only with a strictly smaller g, so
\* no entry is ever on the heap twice.
HeapMin(heap) == CHOOSE e \in heap : \A o \in heap \ {e} : EntryLess(e, o)

\* The neighbour loop of astar accepting a tentative g that equals the
\* recorded one.
RECURSIVE RelaxNonStrict(_, _, _, _, _, _, _, _)
RelaxNonStrict(nbrs, i, current, cf, gs, heap, pos, g) ==
    IF i > Len(nbrs) THEN [came_from |-> cf, g_score |-> gs, open_heap |-> heap]
    ELSE LET neighbor == nbrs[i]
             tentative_g == gs[current] + 1
         IN  IF neighbor \notin DOMAIN gs \/ tentative_g <= gs[neighbor]
             THEN RelaxNonStrict(nbrs, i + 1, current,
                        Put(cf, neighbor, current),
                        Put(gs, neighbor, tentative_g),
                        heap \cup {<<Priority(pos, g, neighbor, tentative_g), neighbor>>},
                        pos, g)
             ELSE RelaxNonStrict(nbrs, i + 1, current, cf, gs, heap, pos, g)

\* The `for neighbor` loop of astar from index i on: a neighbour with no
\* g-score, or with a larger one, is relaxed and pushed.
RECURSIVE Relax(_, _, _, _, _, _, _, _)
Relax(nbrs, i, current, cf, gs, heap, pos, g) ==
    IF i > Len(nbrs) THEN [came_from |-> cf, g_score |-> gs, open_heap |-> heap]
    ELSE LET neighbor == nbrs[i]
             tentative_g == gs[current] + 1
         IN  IF neighbor \notin DOMAIN gs \/ tentative_g < gs[neighbor]
             THEN Relax(nbrs, i + 1, current,
                        Put(cf, neighbor, current),
                        Put(gs, neighbor, tentative_g),
                        heap \cup {<<Priority(pos, g, neighbor, tentative_g), neighbor>>},
                        pos, g)
             ELSE Relax(nbrs, i + 1, current, cf, gs, heap, pos, g)

\* The loop of astar looking at the least entry without removing it and
\* going on to the next iteration (`continue`) when that entry is stale, so
\* that the heap and every other variable stay as they were.
AstarBodyPeekStale(adj, pos, s, g, e, st) ==
    LET current == e[2]
        rest == st.open_heap \ {e}
        vc == st.visited_count + 1
        vo == Append(st.visited_order, current)
    IN  IF FLess(Priority(pos, g, current, st.g_score[current]), e[1])
        THEN st
        ELSE IF current = g
        THEN LET r == reconstruct_path(st.came_from, s, g)
             IN  [open_heap |-> rest, came_from |-> st.came_from, g_score |-> st.g_score,
                  visited_count |-> vc, visited_order |-> vo,
                  ret |-> TRUE, err |-> r.err, path |-> r.path]
        ELSE LET x == Relax(Get(adj, current), 1, current, st.came_from, st.g_score,
                            rest, pos, g)
             IN  [open_heap |-> x.open_heap, came_from |-> x.came_from, g_score |-> x.g_score,
                  visited_count |-> vc, visited_order |-> vo,
                  ret |-> FALSE, err |-> FALSE, path |-> <<>>]

\* One iteration of the while loop of astar on the search state st
\* (open_heap, came_from, g_score, visited_count, visited_order, ret, err, path),
\* where e is the entry that heappop takes off open_heap.
AstarBody(adj, pos, s, g, e, st) ==
    LET current == e[2]
        rest == st.open_heap \ {e}
        vc == st.visited_count + 1
        vo == Append(st.visited_order, current)
    IN  IF current = g
        THEN LET r == reconstruct_path(st.came_from, s, g)
             IN  [open_heap |-> rest, came_from |-> st.came_from, g_score |-> st.g_score,
                  visited_count |-> vc, visited_order |-> vo,
                  ret |-> TRUE, err |-> r.err, path |-> r.path]
        ELSE LET x == Relax(Get(adj, current), 1, current, st.came_from, st.g_score,
                            rest, pos, g)
             IN  [open_heap |-> x.open_heap, came_from |-> x.came_from, g_score |-> x.g_score,
                  visited_count |-> vc, visited_order |-> vo,
                  ret |-> FALSE, err |-> FALSE, path |-> <<>>]

\* The state of astar before the loop.
AstarInit(s) ==
    [open_heap |-> {<<FZero, s>>}, came_from |-> Put(EmptyDict, s, None),
     g_score |-> Put(EmptyDict, s, 0),
     visited_count |-> 0, visited_order |-> <<>>,
     ret |-> FALSE, err |-> FALSE, path |-> <<>>]

\* ----------------------------------------------------------------- state
Algorithms == {"bfs", "dfs", "astar"}

\* popped before the first heappop.
NoEntry == <<FZero, None>>

Init ==
    /\ alg \in Algorithms
    /\ \E G \in Catalog :
          /\ adjacency = G.adjacency
          /\ start \in DOMAIN adjacency
          /\ goal \in DOMAIN adjacency
          /\ positions \in (IF alg # "astar" THEN {EmptyDict}
                            ELSE IF G.small THEN SmallPositions(goal) ELSE G.posmaps)
    /\ frontier = IF alg = "bfs" THEN <<start>> ELSE <<>>
    /\ stack = IF alg = "dfs" THEN <<start>> ELSE <<>>
    /\ open_heap = IF alg = "astar" THEN AstarInit(start).open_heap ELSE {}
    /\ came_from = SearchInit(start).came_from
    /\ g_score = IF alg = "astar" THEN AstarInit(start).g_score ELSE EmptyDict
    /\ visited_count = 0
    /\ visited_order = <<>>
    /\ popped = NoEntry
    /\ pc = "loop"
    /\ result = NoResult

Fixed == UNCHANGED <<alg, adjacency, positions, start, goal>>

\* bfs: one iteration of `while frontier`.
BfsIter ==
    /\ alg = "bfs" /\ pc = "loop" /\ frontier # <<>>
    /\ LET st == BfsBody(adjacency, goal,
                         [frontier |-> frontier, came_from |-> came_from,
                          visited_count |-> visited_count,
                          visited_order |-> visited_order, brk |-> FALSE])
       IN  /\ frontier' = st.frontier
           /\ came_from' = st.came_from
           /\ visited_count' = st.visited_count
           /\ visited_order' = st.visited_order
           /\ pc' = IF st.brk THEN "after" ELSE "loop"
    /\ UNCHANGED <<stack, open_heap, g_score, popped, result>>
    /\ Fixed

\* dfs: one iteration of `while stack`.
DfsIter ==
    /\ alg = "dfs" /\ pc = "loop" /\ stack # <<>>
    /\ LET st == DfsBody(adjacency, goal,
                         [frontier |-> stack, came_from |-> came_from,
                          visited_count |-> visited_count,
                          visited_order |-> visited_order, brk |-> FALSE])
       IN  /\ stack' = st.frontier
           /\ came_from' = st.came_from
           /\ visited_count' = st.visited_count
           /\ visited_order' = st.visited_order
           /\ pc' = IF st.brk THEN "after" ELSE "loop"
    /\ UNCHANGED <<frontier, open_heap, g_score, popped, result>>
    /\ Fixed

\* bfs and dfs after the loop (the goal was popped, or the frontier is
\* empty): reconstruct_path and the return, or the KeyError it raises.
Return ==
    /\ alg \in {"bfs", "dfs"}
    /\ \/ pc = "after"
       \/ pc = "loop" /\ frontier = <<>> /\ stack = <<>>
    /\ LET r == reconstruct_path(came_from, start, goal)
       IN  IF r.err
           THEN pc' = "KeyError" /\ result' = result
           ELSE pc' = "done" /\ result' = SearchResult(r.path, visited_count, visited_order)
    /\ UNCHANGED <<frontier, stack, open_heap, came_from, g_score,
                   visited_count, visited_order, popped>>
    /\ Fixed

\* astar: one iteration of `while open_heap`, with the return on the goal.
AstarIter ==
    /\ alg = "astar" /\ pc = "loop" /\ open_heap # {}
    /\ popped' = HeapMin(open_heap)
    /\ \E st \in {AstarBody(adjacency, positions, start, goal, popped',
                           [open_heap |-> open_heap, came_from |-> came_from,
                            g_score |-> g_score, visited_count |-> visited_count,
                            visited_order |-> visited_order,
                            ret |-> FALSE, err |-> FALSE, path |-> <<>>])} :
           /\ open_heap' = st.open_heap
           /\ came_from' = st.came_from
           /\ g_score' = st.g_score
           /\ visited_count' = st.visited_count
           /\ visited_order' = st.visited_order
           /\ pc' = IF st.err THEN "KeyError" ELSE IF st.ret THEN "done" ELSE "loop"
           /\ result' = IF st.ret /\ ~st.err
                        THEN SearchResult(st.path, st.visited_count, st.visited_order)
                        ELSE result
    /\ UNCHANGED <<frontier, stack>>
    /\ Fixed

\* astar after the loop: "If no path".
AstarNoPath ==
    /\ alg = "astar" /\ pc = "loop" /\ open_heap = {}
    /\ pc' = "done"
    /\ result' = [path |-> <<>>, distance |-> 0,
                  visited_count |-> visited_count, visited_order |-> visited_order]
    /\ UNCHANGED <<frontier, stack, open_heap, came_from, g_score,
                   visited_count, visited_order, popped>>
    /\ Fixed

Next == BfsIter \/ DfsIter \/ Return \/ AstarIter \/ AstarNoPath

Spec == Init /\ [][Next]_vars

\* ------------------------------------------------------------- reference
\* The nodes of R and their successors.
Step(adj, R) == R \cup UNION {Range(Get(adj, n)) : n \in R}

\* The nodes reachable from the nodes of R.
RECURSIVE Closure(_, _)
Closure(adj, R) == IF Step(adj, R) = R THEN R ELSE Closure(adj, Step(adj, R))

ReachSet(adj, s) == Closure(adj, {s})

Reachable == goal \in ReachSet(adjacency, start)

\* The least k with g among the nodes that walks of at most k edges from
\* the set R end in, counted from k; g is reachable from R.
RECURSIVE Levels(_, _, _, _)
Levels(adj, R, g, k) == IF g \in R THEN k ELSE Levels(adj, Step(adj, R), g, k + 1)

\* The least number of edges of a walk from s to g, for g reachable from s.
MinEdges(adj, s, g) == Levels(adj, {s}, g, 0)

Finished == pc \in {"done", "KeyError"}

Last(s) == s[Len(s)]

Count(s, x) == Cardinality({i \in 1..Len(s) : s[i] = x})

IsValidPath(path) ==
    /\ path[1] = start
    /\ Last(path) = goal
    /\ \A i \in 1..(Len(path) - 1) : path[i + 1] \in Range(Get(adjacency, path[i]))

\* ----------------------------------------------------------------- claims
\* C1: a non-empty path returned by bfs, dfs or astar starts at start, ends
\* at goal, and each consecutive pair (u, v) of it has v listed in G[u].
PathValidity == pc = "done" /\ result.path # <<>> => IsValidPath(result.path)

PathValidityWitness ==
    /\ pc = "done" /\ Len(result.path) >= 3
    /\ start # goal

\* C2: whenever goal is reachable from start, bfs returns and its distance
\* is the minimum number of edges over all start-to-goal paths.
BfsOptimality ==
    alg = "bfs" /\ Finished /\ Reachable
        => pc = "done" /\ result.distance = MinEdges(adjacency, start, goal)

\* bfs returned a distance of 3 or more on a graph where the goal has a
\* neighbour that was discovered but is not on the path.
BfsOptimalityWitness ==
    /\ alg = "bfs" /\ pc = "done" /\ result.distance >= 3
    /\ \E n \in DOMAIN came_from : n \notin Range(result.path)

\* C3: with goal unreachable from start, each search returns normally with
\* an empty path, distance 0 and visited_count >= 1.
UnreachableReturnsEmpty ==
    Finished /\ ~Reachable
        => /\ pc = "done"
           /\ result.path = <<>>
           /\ result.distance = 0
           /\ result.visited_count >= 1

\* C4: on UrbanGrid-6x6 and Ladder-10 with their stored positions, astar's
\* distance equals bfs's distance for every pair of nodes.
AstarMatchesBfsOnReference ==
    /\ alg = "astar" /\ pc = "done"
    /\ \/ adjacency = urban_grid_adjacency /\ positions = urban_grid_positions
       \/ adjacency = ladder_adjacency /\ positions = ladder_positions
    => result.distance = bfs(adjacency, start, goal).result.distance

\* C5: a search with start = goal = n returns path [n] and distance 0.
TrivialPath ==
    Finished /\ start = goal
        => pc = "done" /\ result.path = <<start>> /\ result.distance = 0

\* start = goal on a node with a self-loop and another neighbour.
TrivialPathWitness ==
    /\ pc = "done" /\ start = goal
    /\ start \in Range(adjacency[start])
    /\ \E n \in Range(adjacency[start]) : n # start

\* C6: visited_count equals the length of visited_order after every
\* iteration of the search loop and in the returned SearchResult.
VisitedCountIsLength ==
    /\ visited_count = Len(visited_order)
    /\ pc = "done" => result.visited_count = Len(result.visited_order)

VisitedCountIsLengthWitness ==
    /\ pc = "done" /\ result.visited_count >= 3
    /\ Last(result.visited_order) = goal

\* C7: with goal unreachable, visited_order holds exactly the nodes
\* reachable from start, each once, and the path is empty with distance 0.
UnreachableVisitsComponent ==
    Finished /\ ~Reachable
        => /\ pc = "done"
           /\ result.path = <<>>
           /\ result.distance = 0
           /\ Range(result.visited_order) = ReachSet(adjacency, start)
           /\ result.visited_count = Cardinality(ReachSet(adjacency, start))

\* C8: when positions has no entry for the goal (h = 0 everywhere), astar
\* returns a valid path of the minimum number of edges when goal is
\* reachable, and an empty path exactly when it is not.
AstarZeroHeuristic ==
    alg = "astar" /\ Finished /\ goal \notin DOMAIN positions
        => /\ pc = "done"
           /\ result.path = <<>> <=> ~Reachable
           /\ Reachable => /\ IsValidPath(result.path)
                           /\ result.distance = MinEdges(adjacency, start, goal)

\* astar with positions for other nodes but not for the goal found a path
\* of two or more edges.
AstarZeroHeuristicWitness ==
    /\ alg = "astar" /\ pc = "done"
    /\ positions # EmptyDict /\ goal \notin DOMAIN positions
    /\ result.distance >= 2

\* C9: whenever goal is reachable from start, bfs, dfs and astar (with any
\* positions) return a non-empty path.
ReachableGivesPath ==
    Finished /\ Reachable => pc = "done" /\ result.path # <<>>

\* astar returned a path after popping some node twice, which only an
\* inadmissible heuristic brings about.
ReachableGivesPathWitness ==
    /\ alg = "astar" /\ pc = "done" /\ result.path # <<>>
    /\ \E n \in Range(visited_order) : Count(visited_order, n) >= 2

\* C10: bfs and dfs stop when the goal is popped: the goal is then the last
\* element of visited_order and occurs once in it, the pop of the goal adds
\* no came-from entry and enqueues nothing, and neither does any later step.
GoalPopped == goal \in Range(visited_order)

\* A step of bfs or dfs that ends with the goal popped.
StopAtGoalStep ==
    alg \in {"bfs", "dfs"} /\ GoalPopped'
        => /\ came_from' = came_from
           /\ IF GoalPopped
              THEN frontier' = frontier /\ stack' = stack /\ visited_order' = visited_order
              ELSE /\ alg = "bfs" => frontier' = Tail(frontier)
                   /\ alg = "dfs" => stack' = SubSeq(stack, 1, Len(stack) - 1)

StopAtGoal ==
    /\ [](alg \in {"bfs", "dfs"} /\ GoalPopped
            => /\ pc # "loop"
               /\ Last(visited_order) = goal
               /\ Count(visited_order, goal) = 1)
    /\ [](alg \in {"bfs", "dfs"} /\ pc = "done" /\ Reachable
            => /\ Last(result.visited_order) = goal
               /\ Count(result.visited_order, goal) = 1)
    /\ [][StopAtGoalStep]_vars

\* The goal was popped while nodes were still in the frontier and the goal
\* had a neighbour not yet discovered.
StopAtGoalWitness ==
    /\ alg \in {"bfs", "dfs"} /\ pc = "done"
    /\ frontier # <<>> \/ stack # <<>>
    /\ \E n \in Range(adjacency[goal]) : n \notin DOMAIN came_from

\* C11: in bfs and dfs a node is put on the frontier at most once: the
\* frontier holds no duplicate and no node that was already dequeued,
\* visited_order holds no node twice, a node is enqueued only together with
\* its first came-from entry, and a came-from entry is never overwritten.
NoDuplicate(s) == \A i, j \in 1..Len(s) : s[i] = s[j] => i = j

EnqueuedOnceStep ==
    alg \in {"bfs", "dfs"}
        => /\ \A n \in DOMAIN came_from :
                 n \in DOMAIN came_from' /\ came_from'[n] = came_from[n]
           /\ \A n \in (Range(frontier') \cup Range(stack'))
                          \ (Range(frontier) \cup Range(stack)) :
                 n \notin DOMAIN came_from

EnqueuedOnce ==
    /\ [](alg \in {"bfs", "dfs"}
            => /\ NoDuplicate(frontier)
               /\ NoDuplicate(stack)
               /\ NoDuplicate(visited_order)
               /\ (Range(frontier) \cup Range(stack)) \cap Range(visited_order) = {})
    /\ [][EnqueuedOnceStep]_vars

\* A node with a self-loop and a neighbour listed twice was expanded.
EnqueuedOnceWitness ==
    /\ alg \in {"bfs", "dfs"}
    /\ \E i \in 1..Len(visited_order) :
          LET n == visited_order[i]
          IN  /\ n # goal
              /\ n \in Range(adjacency[n])
              /\ \E m \in Range(adjacency[n]) : m # n /\ Count(adjacency[n], m) >= 2

\* C12: a pop of a stale entry of astar (its f is above the f of the node's
\* recorded g-score) changes no g_score entry and no came_from entry and
\* pushes nothing; an entry is pushed only for a neighbour whose g-score the
\* step sets for the first time or strictly lowers, and a g-score never
\* increases.
Stale(e) == FLess(Priority(positions, goal, e[2], g_score[e[2]]), e[1])

StalePopStep ==
    alg = "astar" /\ pc = "loop" /\ open_heap # {} /\ Stale(HeapMin(open_heap))
        => /\ g_score' = g_score
           /\ came_from' = came_from
           /\ open_heap' = open_heap \ {HeapMin(open_heap)}

RelaxationStep ==
    alg = "astar"
        => /\ \A n \in DOMAIN g_score :
                 n \in DOMAIN g_score' /\ g_score'[n] <= g_score[n]
           /\ \A n \in DOMAIN g_score' :
                 \/ /\ n \in DOMAIN g_score
                    /\ g_score'[n] = g_score[n]
                    /\ came_from'[n] = came_from[n]
                 \/ <<Priority(positions, goal, n, g_score'[n]), n>> \in open_heap'
           /\ \A e \in open_heap' \ open_heap :
                 /\ e[1] = Priority(positions, goal, e[2], g_score'[e[2]])
                 /\ e[2] \notin DOMAIN g_score \/ g_score'[e[2]] < g_score[e[2]]

StaleSkipped == [][StalePopStep /\ RelaxationStep]_vars

\* The entry astar popped last is stale.
StaleSkippedWitness ==
    /\ alg = "astar" /\ popped # NoEntry
    /\ Stale(popped)

\* C13: bfs dequeues nodes in order of non-decreasing edge-distance from
\* start (for any positions i < j of visited_order), and an expansion
\* enqueues the newly discovered neighbours in the order of the adjacency
\* sequence.
\* The entries of nbrs that have no came-from entry in cf, each at its first
\* occurrence, in the order of nbrs.
NewNeighbours(nbrs, cf) ==
    LET first == SelectSeq([i \in 1..Len(nbrs) |-> i],
                           LAMBDA i : /\ nbrs[i] \notin DOMAIN cf
                                      /\ \A j \in 1..(i - 1) : nbrs[j] # nbrs[i])
    IN  [k \in 1..Len(first) |-> nbrs[first[k]]]

\* The least number of edges of a walk from s to each node reachable from
\* s: d holds it for the nodes of R, which are those at most k edges away.
RECURSIVE Distances(_, _, _, _)
Distances(adj, R, k, d) ==
    LET new == Step(adj, R) \ R
    IN  IF new = {} THEN d
        ELSE Distances(adj, R \cup new, k + 1, [n \in new |-> k + 1] @@ d)

DistancesFrom(adj, s) == Distances(adj, {s}, 0, (s :> 0))

BfsEnqueueStep ==
    alg = "bfs" /\ pc = "loop" /\ frontier # <<>> /\ Head(frontier) # goal
        => frontier' = Tail(frontier)
                          \o NewNeighbours(Get(adjacency, Head(frontier)), came_from)

BfsDistanceOrder ==
    /\ [](alg = "bfs"
            => LET d == DistancesFrom(adjacency, start)
               IN  \A j \in 1..Len(visited_order) : \A i \in 1..(j - 1) :
                      d[visited_order[i]] <= d[visited_order[j]])
    /\ [][BfsEnqueueStep]_vars

\* bfs dequeued nodes at the distances 0, 1 and 2, and some node had two
\* newly discovered neighbours.
BfsDistanceOrderWitness ==
    /\ alg = "bfs" /\ visited_order # <<>>
    /\ MinEdges(adjacency, start, Last(visited_order)) >= 2
    /\ \E a, b \in DOMAIN came_from :
          a # b /\ came_from[a] = came_from[b] /\ came_from[a] # None

\* The entry of nbrs at the highest index that has no came-from entry in cf
\* (None when every entry has one).
LastUndiscovered(nbrs, cf) ==
    LET open == {i \in 1..Len(nbrs) : nbrs[i] \notin DOMAIN cf}
    IN  IF open = {} THEN None
        ELSE nbrs[CHOOSE i \in open : \A j \in open : j <= i]

\* A dfs iteration that expands a node u (u is popped and is not the goal)
\* which has a neighbour undiscovered at that moment.
DfsExpands ==
    /\ alg = "dfs" /\ pc = "loop" /\ stack # <<>> /\ Last(stack) # goal
    /\ LastUndiscovered(Get(adjacency, Last(stack)), came_from) # None

\* C14 as stated: after dfs expands a node u that has an undiscovered
\* neighbour, the node popped next (the top of the stack) is the last entry
\* of adjacency[u] that was undiscovered when u was expanded.
DfsPopsLastListedStep ==
    DfsExpands
        => /\ visited_order' = Append(visited_order, Last(stack))
           /\ stack' # <<>>
           /\ Last(stack') = LastUndiscovered(Get(adjacency, Last(stack)), came_from)

DfsPopsLastListed == [][DfsPopsLastListedStep]_vars

\* C14: after dfs expands a node u that has an undiscovered neighbour, the
\* stack is the rest of the stack followed by the neighbours of u that were
\* undiscovered, each once at its first occurrence in adjacency[u] and in
\* that order; the node popped next is the last of them, that is the
\* undiscovered neighbour whose first occurrence in adjacency[u] comes last.
DfsPopsLastNewStep ==
    DfsExpands
        => LET u == Last(stack)
               new == NewNeighbours(Get(adjacency, u), came_from)
           IN  /\ visited_order' = Append(visited_order, u)
               /\ stack' = SubSeq(stack, 1, Len(stack) - 1) \o new
               /\ Last(stack') = Last(new)

DfsPopsLastNew == [][DfsPopsLastNewStep]_vars

\* dfs expanded a node u with two neighbours then undiscovered, the next
\* node popped was the one pushed last, and the last entry of adjacency[u]
\* is the other one (a neighbour listed a second time).
DfsPopsLastNewWitness ==
    /\ alg = "dfs" /\ Len(visited_order) >= 2
    /\ LET k == Len(visited_order)
           u == visited_order[k - 1]
           v == visited_order[k]
       IN  /\ u # goal /\ came_from[v] = u
           /\ \E w \in DOMAIN came_from :
                 /\ w # v /\ came_from[w] = u
                 /\ Get(adjacency, u) # <<>>
                 /\ Last(Get(adjacency, u)) = w

\* The execution of one call: the call runs synchronously to its end, so a
\* step of the call that can be taken is taken.
FairSpec == Spec /\ WF_vars(Next)

\* The search loop is over: it was left by break or return, or its
\* collection (frontier, stack, open_heap) is empty at the loop test.
LoopExited ==
    \/ pc # "loop"
    \/ alg \in {"bfs", "dfs"} /\ frontier = <<>> /\ stack = <<>>
    \/ alg = "astar" /\ open_heap = {}

\* C15: every call of bfs, dfs and astar eventually finishes its search
\* loop, whatever the start, the goal and the positions are, on graphs with
\* cycles, self-loops and repeated neighbours, and for astar with an
\* inadmissible heuristic and re-pushed nodes.
Termination == <>LoopExited

\* astar left its loop after it had popped some node twice (the node was
\* pushed again after its first push) on a graph where a node other than
\* the start has the start as a neighbour (a cycle through the start).
TerminationWitness ==
    /\ alg = "astar" /\ pc # "loop"
    /\ ~NoDuplicate(visited_order)
    /\ \E n \in DOMAIN adjacency : n # start /\ start \in Range(adjacency[n])

====
